---- MODULE Spec2Model ----
(***************************************************************************)
(* hyper-stub: an in-process connector for hyper clients.                  *)
(*                                                                         *)
(* The model follows src/src/connector.rs (Connector, ConnectorConnect-    *)
(* Future) and src/src/lib.rs (proxy_client, proxy_client_fn,              *)
(* proxy_client_fn_ok and the two tests).  The collaborators the connector *)
(* calls (memsocket::unbounded, Http::serve_connection, tokio::spawn) are  *)
(* modelled at the call sites, by their stream / serve-loop contract.      *)
(*                                                                         *)
(* Callers follow the futures 0.1 contract, as hyper's Client does: a      *)
(* connect future is polled only until it resolves and only inside a       *)
(* running executor.  A client issues one request per connection.  Once a  *)
(* panic has unwound the runtime, nothing runs any more.                    *)
(***************************************************************************)
EXTENDS Integers, Sequences, FiniteSets, TLC

\* ---------------------------------------------------------------- bounds
MaxAttempts == 2

Ids == 1..MaxAttempts

None == <<"None">>
NoErr == "no error"

\* ------------------------------------------------------- requests, bodies
\* POST with a body (the crate-level example) and GET with a query (test_ok).
ReqPost == [query |-> <<>>, body |-> <<7, 8>>]
ReqGet == [query |-> <<5>>, body |-> <<>>]
Requests == {ReqPost, ReqGet}

Ok(v) == <<"Ok", v>>
Err(e) == <<"Err", e>>
IsOk(x) == x[1] = "Ok"
IsErr(x) == x[1] = "Err"

\* InitError values: NewServiceError of test_err, and one more.
NewServiceError == "correct error for test"
Errors == {NewServiceError, "other init error"}

\* Handlers.  Echo is the crate example, Query is test_ok's closure.
Echo == [r \in Requests |-> r.body]
Query == [r \in Requests |-> r.query]
SyncHandlers == {Echo, Query}

\* An asynchronous handler that fails on requests without a body.
FailingHandler ==
    [r \in Requests |-> IF r.body = <<>> THEN Err("handler error") ELSE Ok(r.body)]

NoRequest == [none |-> TRUE]
Terminated == <<"Terminated">>

\* ------------------------------------------------------------ wire format
\* The protocol engine frames a message as length-prefixed fields.
EncodeField(b) == <<Len(b)>> \o b
EncodeRequest(r) == EncodeField(r.query) \o EncodeField(r.body)
EncodeResponse(b) == EncodeField(b)

FieldComplete(buf) == Len(buf) >= 1 /\ Len(buf) >= 1 + buf[1]
FieldOf(buf) == SubSeq(buf, 2, 1 + buf[1])
FieldRest(buf) == SubSeq(buf, 2 + buf[1], Len(buf))
RequestComplete(buf) == FieldComplete(buf) /\ FieldComplete(FieldRest(buf))
ParseRequest(buf) == [query |-> FieldOf(buf), body |-> FieldOf(FieldRest(buf))]
RequestRest(buf) == FieldRest(FieldRest(buf))

\* ------------------------------------------------------------- factories
\* hyper::service::service_fn(handler): a Service whose call applies handler.
ServiceFn(handler) == [call |-> handler]

\* proxy_client(new_service): the connector owns the factory.
ProxyClient(ns) == ns

\* Variant: the function is wrapped in a factory whose future may suspend or fail.
ProxyClientFn_Fallible(handler) == ProxyClient([kind |-> "custom", svc |-> ServiceFn(handler)])

\* proxy_client_fn(handler): move || future::ok::<_, Never>(service_fn(handler))
ProxyClientFn(handler) == ProxyClient([kind |-> "fn", svc |-> ServiceFn(handler)])

\* Variant: the wrapper answers with the request body instead of handler(req).
ProxyClientFnOk_Unapplied(handler) == ProxyClientFn([req \in Requests |-> Ok(req.body)])

\* proxy_client_fn_ok(handler): proxy_client_fn(move |req| future::ok(handler(req)))
ProxyClientFnOk(handler) == ProxyClientFn([req \in Requests |-> Ok(handler[req])])

\* test_err: proxy_client(|| future::err::<Never, _>(NewServiceError))
ErrClient(e) == ProxyClient([kind |-> "err", e |-> e])

\* A general NewService: its future may suspend, fail or yield a service.
CustomClient == ProxyClient([kind |-> "custom", svc |-> ServiceFn(FailingHandler)])

Clients ==
    {ProxyClientFnOk(h) : h \in SyncHandlers} \cup {ErrClient(NewServiceError)}
        \cup {CustomClient}

\* The future new_service.new_service() returns, as the n-th call of the factory.
NoFuture == [st |-> "NotCreated", inst |-> 0, err |-> NoErr]
NewServiceCall(ns, n) ==
    CASE ns.kind = "fn" -> {[st |-> "Ok", inst |-> n, err |-> NoErr]}
      [] ns.kind = "err" -> {[st |-> "Err", inst |-> n, err |-> ns.e]}
      [] OTHER ->
            {[st |-> "NotReady", inst |-> n, err |-> NoErr],
             [st |-> "Ok", inst |-> n, err |-> NoErr]}
                \cup {[st |-> "Err", inst |-> n, err |-> e] : e \in Errors}

\* Destinations: the crate example connects to http://example.com, the tests
\* to https://example.com.
ExampleHttp == "http://example.com"
ExampleHttps == "https://example.com"
Destinations == {ExampleHttp, ExampleHttps}
NoDestination == "no destination"

VARIABLES
    new_service,     \* Connector.new_service
    runtime,         \* the executor the futures run on: [alive]
    nCalls,          \* number of new_service() calls made so far
    service_future,  \* ConnectorConnectFuture.service_future, per attempt
    fut,             \* the connect future as its caller sees it, per attempt
    dest,            \* the Destination connect was called with, per attempt
    polled,          \* whether the connect future has been polled, per attempt
    result,          \* what the connect future resolved with, per attempt
    pairs,           \* duplex pairs created; pairs[p] is the creating attempt
    tasks,           \* background tasks spawned, in spawn order
    c2s, s2c,        \* bytes in flight, client to server and back, per pair
    clientOpen,      \* the client half of pair p is alive
    serverOpen,      \* the server half of pair p is alive
    sent,            \* the request the client issued on pair p
    out,             \* bytes of that request not yet written
    resp,            \* what the client got back on pair p
    wrote, readS     \* history: bytes written by the client / read by the server

connVars ==
    <<new_service, runtime, nCalls, service_future, fut, dest, polled, result, pairs, tasks>>
ioVars == <<c2s, s2c, clientOpen, serverOpen, sent, out, resp, wrote, readS>>
vars == <<connVars, ioVars>>

Init ==
    /\ new_service \in Clients
    /\ runtime = [alive |-> TRUE]
    /\ nCalls = 0
    /\ service_future = [i \in Ids |-> NoFuture]
    /\ fut = [i \in Ids |-> "None"]
    /\ dest = [i \in Ids |-> NoDestination]
    /\ polled = [i \in Ids |-> FALSE]
    /\ result = [i \in Ids |-> None]
    /\ pairs = <<>>
    /\ tasks = <<>>
    /\ c2s = [p \in Ids |-> <<>>]
    /\ s2c = [p \in Ids |-> <<>>]
    /\ clientOpen = [p \in Ids |-> FALSE]
    /\ serverOpen = [p \in Ids |-> FALSE]
    /\ sent = [p \in Ids |-> NoRequest]
    /\ out = [p \in Ids |-> <<>>]
    /\ resp = [p \in Ids |-> None]
    /\ wrote = [p \in Ids |-> <<>>]
    /\ readS = [p \in Ids |-> <<>>]

\* ------------------------------------------------------------- connector
\* Variant: connect allocates the duplex pair up front.
Connect_Eager(i) ==
    /\ runtime.alive
    /\ fut[i] = "None"
    /\ \A j \in Ids : j < i => fut[j] # "None"
    /\ \E f \in NewServiceCall(new_service, nCalls + 1) :
          service_future' = [service_future EXCEPT ![i] = f]
    /\ nCalls' = nCalls + 1
    /\ fut' = [fut EXCEPT ![i] = "Pending"]
    /\ dest' = [dest EXCEPT ![i] = ExampleHttps]
    /\ pairs' = Append(pairs, i)
    /\ clientOpen' = [clientOpen EXCEPT ![Len(pairs) + 1] = TRUE]
    /\ serverOpen' = [serverOpen EXCEPT ![Len(pairs) + 1] = TRUE]
    /\ UNCHANGED <<new_service, runtime, polled, result, tasks>>
    /\ UNCHANGED <<c2s, s2c, sent, out, resp, wrote, readS>>

\* Variant: connect refuses a destination it does not know.
ConnectTo_ChecksDestination(i, d) ==
    /\ runtime.alive
    /\ fut[i] = "None"
    /\ \A j \in Ids : j < i => fut[j] # "None"
    /\ \E f \in NewServiceCall(new_service, nCalls + 1) :
          service_future' = [service_future EXCEPT
              ![i] = IF d = ExampleHttps THEN f ELSE [f EXCEPT !.st = "Err", !.err = "other init error"]]
    /\ nCalls' = nCalls + 1
    /\ fut' = [fut EXCEPT ![i] = "Pending"]
    /\ dest' = [dest EXCEPT ![i] = d]
    /\ UNCHANGED <<new_service, runtime, polled, result, pairs, tasks, ioVars>>

\* Connector::connect(&self, _: Destination): clones the engine handle and
\* calls the factory; the destination is not looked at.
ConnectTo(i, d) ==
    /\ runtime.alive
    /\ fut[i] = "None"
    /\ \A j \in Ids : j < i => fut[j] # "None"
    /\ \E f \in NewServiceCall(new_service, nCalls + 1) :
          service_future' = [service_future EXCEPT ![i] = f]
    /\ nCalls' = nCalls + 1
    /\ fut' = [fut EXCEPT ![i] = "Pending"]
    /\ dest' = [dest EXCEPT ![i] = d]
    /\ UNCHANGED <<new_service, runtime, polled, result, pairs, tasks, ioVars>>

\* Connector::connect, called by the client for the URL of the tests.
Connect(i) == ConnectTo(i, ExampleHttps)

\* Connector::connect, called for any destination.
ConnectAny(i) == \E d \in Destinations : ConnectTo(i, d)

\* The factory's own future makes progress (asynchronous construction ends).
ServiceFutureResolve(i) ==
    /\ runtime.alive
    /\ fut[i] = "Pending"
    /\ service_future[i].st = "NotReady"
    /\ \E r \in {[st |-> "Ok", err |-> NoErr]} \cup {[st |-> "Err", err |-> e] : e \in Errors} :
          service_future' = [service_future EXCEPT ![i].st = r.st, ![i].err = r.err]
    /\ UNCHANGED <<new_service, dest, runtime, nCalls, fut, polled, result, pairs, tasks, ioVars>>

\* The task tokio::spawn receives: serve_connection(server_io, service).
SpawnedTask(server_io, service) ==
    [io |-> server_io, service |-> service, state |-> "Serving", calls |-> 0]

\* The service the factory's future yields.
ServiceOf(ns, f) == [call |-> ns.svc.call, inst |-> f.inst]

\* Variant: a poll that finds the inner future not ready already creates a pair.
PollNotReady_Allocates(i) ==
    /\ runtime.alive
    /\ fut[i] = "Pending"
    /\ service_future[i].st = "NotReady"
    /\ Len(pairs) < MaxAttempts
    /\ polled' = [polled EXCEPT ![i] = TRUE]
    /\ pairs' = Append(pairs, i)
    /\ UNCHANGED <<new_service, dest, runtime, nCalls, service_future, fut, result, tasks, ioVars>>

\* ConnectorConnectFuture::poll, inner future not ready: Ok(Async::NotReady).
PollNotReady(i) ==
    /\ runtime.alive
    /\ fut[i] = "Pending"
    /\ service_future[i].st = "NotReady"
    /\ polled' = [polled EXCEPT ![i] = TRUE]
    /\ UNCHANGED <<new_service, dest, runtime, nCalls, service_future, fut, result, pairs, tasks, ioVars>>

\* Variant: a failed instantiation is retried by calling the factory again.
PollErr_Retries(i) ==
    /\ runtime.alive
    /\ fut[i] = "Pending"
    /\ service_future[i].st = "Err"
    /\ nCalls < 2 * MaxAttempts
    /\ polled' = [polled EXCEPT ![i] = TRUE]
    /\ nCalls' = nCalls + 1
    /\ \E f \in NewServiceCall(new_service, nCalls + 1) :
          service_future' = [service_future EXCEPT ![i] = f]
    /\ UNCHANGED <<new_service, dest, runtime, fut, result, pairs, tasks, ioVars>>

\* Variant: the factory's error is replaced by another one on the way out.
PollErr_LosesError(i) ==
    /\ runtime.alive
    /\ fut[i] = "Pending"
    /\ service_future[i].st = "Err"
    /\ polled' = [polled EXCEPT ![i] = TRUE]
    /\ result' = [result EXCEPT ![i] = Err("other init error")]
    /\ fut' = [fut EXCEPT ![i] = "Failed"]
    /\ service_future' = [service_future EXCEPT ![i].st = "Done"]
    /\ UNCHANGED <<new_service, dest, runtime, nCalls, pairs, tasks, ioVars>>

\* ConnectorConnectFuture::poll, inner future failed: Err(e), nothing else.
PollErr(i) ==
    /\ runtime.alive
    /\ fut[i] = "Pending"
    /\ service_future[i].st = "Err"
    /\ polled' = [polled EXCEPT ![i] = TRUE]
    /\ result' = [result EXCEPT ![i] = Err(service_future[i].err)]
    /\ fut' = [fut EXCEPT ![i] = "Failed"]
    /\ service_future' = [service_future EXCEPT ![i].st = "Done"]
    /\ UNCHANGED <<new_service, dest, runtime, nCalls, pairs, tasks, ioVars>>

\* Variant: the handler is taken out of the factory's future in one poll and
\* wired in a later one.
PollReady_Suspends(i) ==
    /\ runtime.alive
    /\ fut[i] = "Pending"
    /\ service_future[i].st = "Ok"
    /\ polled' = [polled EXCEPT ![i] = TRUE]
    /\ service_future' = [service_future EXCEPT ![i].st = "Done"]
    /\ UNCHANGED <<new_service, dest, runtime, nCalls, fut, result, pairs, tasks, ioVars>>

\* Variant: every caller is given the client half of the first pair.
PollReady_SharedClient(i) ==
    /\ runtime.alive
    /\ fut[i] = "Pending"
    /\ service_future[i].st = "Ok"
    /\ LET p == Len(pairs) + 1
           service == ServiceOf(new_service, service_future[i])
       IN  /\ pairs' = Append(pairs, i)
           /\ clientOpen' = [clientOpen EXCEPT ![p] = TRUE]
           /\ serverOpen' = [serverOpen EXCEPT ![p] = TRUE]
           /\ tasks' = Append(tasks, SpawnedTask(p, service))
           /\ result' = [result EXCEPT ![i] = Ok([io |-> 1, proxy |-> TRUE])]
    /\ polled' = [polled EXCEPT ![i] = TRUE]
    /\ fut' = [fut EXCEPT ![i] = "Ready"]
    /\ service_future' = [service_future EXCEPT ![i].st = "Done"]
    /\ UNCHANGED <<new_service, dest, runtime, nCalls, c2s, s2c, sent, out, resp, wrote, readS>>

\* Variant: the transport is returned without the proxy mark.
PollReady_NoProxy(i) ==
    /\ runtime.alive
    /\ fut[i] = "Pending"
    /\ service_future[i].st = "Ok"
    /\ LET p == Len(pairs) + 1
           service == ServiceOf(new_service, service_future[i])
       IN  /\ pairs' = Append(pairs, i)
           /\ clientOpen' = [clientOpen EXCEPT ![p] = TRUE]
           /\ serverOpen' = [serverOpen EXCEPT ![p] = TRUE]
           /\ tasks' = Append(tasks, SpawnedTask(p, service))
           /\ result' = [result EXCEPT ![i] = Ok([io |-> p, proxy |-> FALSE])]
    /\ polled' = [polled EXCEPT ![i] = TRUE]
    /\ fut' = [fut EXCEPT ![i] = "Ready"]
    /\ service_future' = [service_future EXCEPT ![i].st = "Done"]
    /\ UNCHANGED <<new_service, dest, runtime, nCalls, c2s, s2c, sent, out, resp, wrote, readS>>

\* Variant: the client half is returned without spawning the server task.
PollReady_NoSpawn(i) ==
    /\ runtime.alive
    /\ fut[i] = "Pending"
    /\ service_future[i].st = "Ok"
    /\ LET p == Len(pairs) + 1
       IN  /\ pairs' = Append(pairs, i)
           /\ clientOpen' = [clientOpen EXCEPT ![p] = TRUE]
           /\ serverOpen' = [serverOpen EXCEPT ![p] = TRUE]
           /\ result' = [result EXCEPT ![i] = Ok([io |-> p, proxy |-> TRUE])]
    /\ polled' = [polled EXCEPT ![i] = TRUE]
    /\ fut' = [fut EXCEPT ![i] = "Ready"]
    /\ service_future' = [service_future EXCEPT ![i].st = "Done"]
    /\ UNCHANGED <<new_service, dest, runtime, nCalls, tasks, c2s, s2c, sent, out, resp, wrote, readS>>

\* Variant: every task is given the server half of the first pair.
PollReady_SharedSocket(i) ==
    /\ runtime.alive
    /\ fut[i] = "Pending"
    /\ service_future[i].st = "Ok"
    /\ LET p == Len(pairs) + 1
           service == ServiceOf(new_service, service_future[i])
       IN  /\ pairs' = Append(pairs, i)
           /\ clientOpen' = [clientOpen EXCEPT ![p] = TRUE]
           /\ serverOpen' = [serverOpen EXCEPT ![p] = TRUE]
           /\ tasks' = Append(tasks, SpawnedTask(1, service))
           /\ result' = [result EXCEPT ![i] = Ok([io |-> p, proxy |-> TRUE])]
    /\ polled' = [polled EXCEPT ![i] = TRUE]
    /\ fut' = [fut EXCEPT ![i] = "Ready"]
    /\ service_future' = [service_future EXCEPT ![i].st = "Done"]
    /\ UNCHANGED <<new_service, dest, runtime, nCalls, c2s, s2c, sent, out, resp, wrote, readS>>

\* ConnectorConnectFuture::poll, inner future ready: memsocket::unbounded(),
\* tokio::spawn(serve_connection(server_io, service)), return client_io.
PollReady(i) ==
    /\ runtime.alive
    /\ fut[i] = "Pending"
    /\ service_future[i].st = "Ok"
    /\ LET p == Len(pairs) + 1
           client_io == p
           server_io == p
           service == ServiceOf(new_service, service_future[i])
       IN  /\ pairs' = Append(pairs, i)
           /\ clientOpen' = [clientOpen EXCEPT ![p] = TRUE]
           /\ serverOpen' = [serverOpen EXCEPT ![p] = TRUE]
           /\ tasks' = Append(tasks, SpawnedTask(server_io, service))
           /\ result' = [result EXCEPT ![i] = Ok([io |-> client_io, proxy |-> TRUE])]
    /\ polled' = [polled EXCEPT ![i] = TRUE]
    /\ fut' = [fut EXCEPT ![i] = "Ready"]
    /\ service_future' = [service_future EXCEPT ![i].st = "Done"]
    /\ UNCHANGED <<new_service, dest, runtime, nCalls, c2s, s2c, sent, out, resp, wrote, readS>>

\* ConnectorConnectFuture::poll, called again after it returned Ready.  The
\* future keeps no record of having resolved: the call goes to
\* service_future.poll() once more.  A FutureResult (future::ok, future::err)
\* panics there, and a future that answers NotReady wires nothing: both leave
\* the state as it is.  A future of a general NewService may yield its
\* service again, and then the closure runs again.
RePollReady(i) ==
    /\ runtime.alive
    /\ fut[i] = "Ready"
    /\ new_service.kind = "custom"
    /\ Len(pairs) < MaxAttempts
    /\ LET p == Len(pairs) + 1
           service == ServiceOf(new_service, service_future[i])
       IN  /\ pairs' = Append(pairs, i)
           /\ clientOpen' = [clientOpen EXCEPT ![p] = TRUE]
           /\ serverOpen' = [serverOpen EXCEPT ![p] = TRUE]
           /\ tasks' = Append(tasks, SpawnedTask(p, service))
           /\ result' = [result EXCEPT ![i] = Ok([io |-> p, proxy |-> TRUE])]
    /\ UNCHANGED <<new_service, dest, runtime, nCalls, service_future, fut, polled>>
    /\ UNCHANGED <<c2s, s2c, sent, out, resp, wrote, readS>>

\* Variant: dropping the connect future completes the wiring of a ready handler.
DropFuture_Wires(i) ==
    /\ runtime.alive
    /\ fut[i] = "Pending"
    /\ fut' = [fut EXCEPT ![i] = "Dropped"]
    /\ service_future' = [service_future EXCEPT ![i].st = "Dropped"]
    /\ IF service_future[i].st = "Ok"
       THEN /\ pairs' = Append(pairs, i)
            /\ serverOpen' = [serverOpen EXCEPT ![Len(pairs) + 1] = TRUE]
            /\ tasks' = Append(tasks,
                    SpawnedTask(Len(pairs) + 1, ServiceOf(new_service, service_future[i])))
       ELSE UNCHANGED <<pairs, serverOpen, tasks>>
    /\ UNCHANGED <<new_service, dest, runtime, nCalls, polled, result>>
    /\ UNCHANGED <<c2s, s2c, clientOpen, sent, out, resp, wrote, readS>>

\* The caller drops the connect future before it resolved; the inner future
\* is a field of it and is dropped with it.
DropFuture(i) ==
    /\ runtime.alive
    /\ fut[i] = "Pending"
    /\ fut' = [fut EXCEPT ![i] = "Dropped"]
    /\ service_future' = [service_future EXCEPT ![i].st = "Dropped"]
    /\ UNCHANGED <<new_service, dest, runtime, nCalls, polled, result, pairs, tasks, ioVars>>

\* ------------------------------------------------- the client's transport
PairIds == 1..Len(pairs)
TaskIds == 1..Len(tasks)

\* The client stack issues a request on its transport (one per connection).
SendRequest(p, r) ==
    /\ runtime.alive
    /\ clientOpen[p]
    /\ sent[p] = NoRequest
    /\ sent' = [sent EXCEPT ![p] = r]
    /\ out' = [out EXCEPT ![p] = EncodeRequest(r)]
    /\ UNCHANGED <<connVars, c2s, s2c, clientOpen, serverOpen, resp, wrote, readS>>

\* The next field of the request is written to the client half.
ClientWrite(p) ==
    /\ runtime.alive
    /\ clientOpen[p]
    /\ serverOpen[p]
    /\ out[p] # <<>>
    /\ LET chunk == SubSeq(out[p], 1, Len(out[p]) - Len(FieldRest(out[p])))
       IN  /\ c2s' = [c2s EXCEPT ![p] = @ \o chunk]
           /\ wrote' = [wrote EXCEPT ![p] = @ \o chunk]
           /\ out' = [out EXCEPT ![p] = FieldRest(@)]
    /\ UNCHANGED <<connVars, s2c, clientOpen, serverOpen, sent, resp, readS>>

\* The client reads a whole response from its half.
ClientRead(p) ==
    /\ runtime.alive
    /\ clientOpen[p]
    /\ sent[p] # NoRequest
    /\ resp[p] = None
    /\ FieldComplete(s2c[p])
    /\ resp' = [resp EXCEPT ![p] = Ok(FieldOf(s2c[p]))]
    /\ s2c' = [s2c EXCEPT ![p] = FieldRest(@)]
    /\ UNCHANGED <<connVars, c2s, clientOpen, serverOpen, sent, out, wrote, readS>>

\* The client reads end-of-stream where a response was due.
ClientReadEof(p) ==
    /\ runtime.alive
    /\ clientOpen[p]
    /\ sent[p] # NoRequest
    /\ resp[p] = None
    /\ ~FieldComplete(s2c[p])
    /\ ~serverOpen[p]
    /\ resp' = [resp EXCEPT ![p] = Terminated]
    /\ UNCHANGED <<connVars, c2s, s2c, clientOpen, serverOpen, sent, out, wrote, readS>>

\* The client drops (or closes) its half of the transport; what it had not
\* written or read yet goes with it.
ClientDrop(p) ==
    /\ runtime.alive
    /\ clientOpen[p]
    /\ clientOpen' = [clientOpen EXCEPT ![p] = FALSE]
    /\ out' = [out EXCEPT ![p] = <<>>]
    /\ s2c' = [s2c EXCEPT ![p] = <<>>]
    /\ UNCHANGED <<connVars, c2s, serverOpen, sent, resp, wrote, readS>>

\* ------------------------------------------------- background server task
\* .map_err(|err| panic!("{:?}", err)) inside the spawned future.  What the
\* panic takes down depends on the executor tokio::spawn put the task on: a
\* thread pool catches the panic of one task ("task"); the current_thread
\* runtime (the one the tests and the crate example use) lets it unwind
\* through block_on, which drops the runtime and every future it owns
\* ("runtime").
PanicScopes == {"task", "runtime"}

\* Variant: the failed connection is served again by a fresh task.
ServePanic_Respawns(t, scope) ==
    /\ tasks' = Append([tasks EXCEPT ![t].state = "Aborted"],
            SpawnedTask(tasks[t].io, tasks[t].service))
    /\ c2s' = [c2s EXCEPT ![tasks[t].io] = <<>>]
    /\ UNCHANGED <<runtime, clientOpen, serverOpen, fut, service_future, s2c, out>>

ServePanic(t, scope) ==
    IF scope = "task"
    THEN /\ tasks' = [tasks EXCEPT ![t].state = "Aborted"]
         /\ serverOpen' = [serverOpen EXCEPT ![tasks[t].io] = FALSE]
         /\ c2s' = [c2s EXCEPT ![tasks[t].io] = <<>>]
         /\ UNCHANGED <<runtime, clientOpen, fut, service_future, s2c, out>>
    ELSE /\ runtime' = [runtime EXCEPT !.alive = FALSE]
         /\ tasks' = [u \in TaskIds |->
                IF u = t THEN [tasks[u] EXCEPT !.state = "Aborted"]
                ELSE IF tasks[u].state = "Serving" THEN [tasks[u] EXCEPT !.state = "Killed"]
                ELSE tasks[u]]
         /\ serverOpen' = [p \in Ids |-> FALSE]
         /\ clientOpen' = [p \in Ids |-> FALSE]
         /\ c2s' = [p \in Ids |-> <<>>]
         /\ s2c' = [p \in Ids |-> <<>>]
         /\ out' = [p \in Ids |-> <<>>]
         /\ fut' = [i \in Ids |-> IF fut[i] = "Pending" THEN "Dropped" ELSE fut[i]]
         /\ service_future' = [i \in Ids |->
                IF fut[i] = "Pending" THEN [service_future[i] EXCEPT !.st = "Dropped"]
                ELSE service_future[i]]

\* What writing the response does: the peer may be gone by then.
WriteOutcomes(p) == IF clientOpen[p] THEN {"written"} ELSE {"discarded", "broken_pipe"}

\* The bytes of the first request in buf.
RequestBytes(buf) == SubSeq(buf, 1, Len(buf) - Len(RequestRest(buf)))

\* serve_connection: a whole request is buffered; call the service, respond.
ServeRequest(t) ==
    LET p == tasks[t].io
        buf == c2s[p]
        req == ParseRequest(buf)
    IN  /\ runtime.alive
        /\ t \in TaskIds
        /\ tasks[t].state = "Serving"
        /\ RequestComplete(buf)
        /\ req \in Requests
        /\ tasks[t].service.call[req][1] = "Ok"
        /\ readS' = [readS EXCEPT ![p] = @ \o RequestBytes(buf)]
        /\ \E w \in WriteOutcomes(p) :
              IF w = "broken_pipe"
              THEN \E scope \in PanicScopes : ServePanic(t, scope)
              ELSE /\ tasks' = [tasks EXCEPT ![t].calls = @ + 1]
                   /\ c2s' = [c2s EXCEPT ![p] = RequestRest(buf)]
                   /\ s2c' = [s2c EXCEPT ![p] =
                          IF w = "written"
                          THEN @ \o EncodeResponse(tasks[t].service.call[req][2])
                          ELSE @]
                   /\ UNCHANGED <<runtime, clientOpen, serverOpen, fut, service_future, out>>
        /\ UNCHANGED <<new_service, dest, nCalls, polled, result, pairs, sent, resp, wrote>>

\* serve_connection: the service's future fails; the engine surfaces the error.
ServeHandlerError(t) ==
    LET p == tasks[t].io
        buf == c2s[p]
        req == ParseRequest(buf)
    IN  /\ runtime.alive
        /\ t \in TaskIds
        /\ tasks[t].state = "Serving"
        /\ RequestComplete(buf)
        /\ req \in Requests
        /\ tasks[t].service.call[req][1] = "Err"
        /\ readS' = [readS EXCEPT ![p] = @ \o RequestBytes(buf)]
        /\ \E scope \in PanicScopes : ServePanic(t, scope)
        /\ UNCHANGED <<new_service, dest, nCalls, polled, result, pairs, sent, resp, wrote>>

\* serve_connection: the stream ends inside a message, or the bytes are no
\* request at all; the engine surfaces a protocol error.
ServeProtocolError(t) ==
    LET p == tasks[t].io
        buf == c2s[p]
    IN  /\ runtime.alive
        /\ t \in TaskIds
        /\ tasks[t].state = "Serving"
        /\ \/ buf # <<>> /\ ~RequestComplete(buf) /\ ~clientOpen[p]
           \/ RequestComplete(buf) /\ ParseRequest(buf) \notin Requests
        /\ readS' = [readS EXCEPT ![p] = @ \o buf]
        /\ \E scope \in PanicScopes : ServePanic(t, scope)
        /\ UNCHANGED <<new_service, dest, nCalls, polled, result, pairs, sent, resp, wrote>>

\* serve_connection: end-of-stream between messages; the future resolves Ok.
ServeEof(t) ==
    LET p == tasks[t].io
    IN  /\ runtime.alive
        /\ t \in TaskIds
        /\ tasks[t].state = "Serving"
        /\ c2s[p] = <<>>
        /\ ~clientOpen[p]
        /\ tasks' = [tasks EXCEPT ![t].state = "Closed"]
        /\ serverOpen' = [serverOpen EXCEPT ![p] = FALSE]
        /\ UNCHANGED <<new_service, dest, runtime, nCalls, service_future, fut, polled, result, pairs>>
        /\ UNCHANGED <<c2s, s2c, clientOpen, sent, out, resp, wrote, readS>>

Next ==
    \/ \E i \in Ids : Connect(i)
    \/ \E i \in Ids : ServiceFutureResolve(i)
    \/ \E i \in Ids : PollNotReady(i)
    \/ \E i \in Ids : PollErr(i)
    \/ \E i \in Ids : PollReady(i)
    \/ \E i \in Ids : DropFuture(i)
    \/ \E p \in Ids, r \in Requests : SendRequest(p, r)
    \/ \E p \in Ids : ClientWrite(p)
    \/ \E p \in Ids : ClientRead(p)
    \/ \E p \in Ids : ClientReadEof(p)
    \/ \E p \in Ids : ClientDrop(p)
    \/ \E t \in Ids : ServeRequest(t)
    \/ \E t \in Ids : ServeHandlerError(t)
    \/ \E t \in Ids : ServeProtocolError(t)
    \/ \E t \in Ids : ServeEof(t)

Spec == Init /\ [][Next]_vars

\* Callers that poll a connect future again after it resolved.
NextRepoll == Next \/ \E i \in Ids : RePollReady(i)

SpecRepoll == Init /\ [][NextRepoll]_vars

\* The connector alone, called for any destination.
NextConnect ==
    \/ \E i \in Ids : ConnectAny(i)
    \/ \E i \in Ids : ServiceFutureResolve(i)
    \/ \E i \in Ids : PollNotReady(i)
    \/ \E i \in Ids : PollErr(i)
    \/ \E i \in Ids : PollReady(i)
    \/ \E i \in Ids : DropFuture(i)

SpecConnect == Init /\ [][NextConnect]_vars


\* Fairness: the executor runs a spawned task whenever it can make progress.
ServeStep(t) ==
    ServeRequest(t) \/ ServeHandlerError(t) \/ ServeProtocolError(t) \/ ServeEof(t)

FairSpec == Spec /\ \A t \in Ids : WF_vars(ServeStep(t))

\* ------------------------------------------------------------ properties
PairsOf(i) == {p \in PairIds : pairs[p] = i}
TasksOfInst(n) == {t \in TaskIds : tasks[t].service.inst = n}
TasksOnPair(p) == {t \in TaskIds : tasks[t].io = p}
Created == {i \in Ids : fut[i] # "None"}
IsPrefix(a, b) == Len(a) <= Len(b) /\ SubSeq(b, 1, Len(a)) = a

\* C1: an instantiation failure is inert.  A connect future whose factory
\* future failed with E resolved with that same E, and its attempt has no
\* duplex pair, no background task and no handler call; with a factory that
\* always fails with E, every resolved attempt failed with E and nothing was
\* ever spawned.
C1_FailureInert ==
    /\ \A i \in Ids :
          fut[i] = "Failed" =>
             /\ service_future[i].err \in Errors
             /\ result[i] = Err(service_future[i].err)
             /\ PairsOf(i) = {}
             /\ TasksOfInst(service_future[i].inst) = {}
    /\ new_service.kind = "err" =>
          /\ \A i \in Ids : fut[i] \in {"None", "Pending", "Dropped", "Failed"}
          /\ \A i \in Ids : fut[i] = "Failed" => result[i] = Err(new_service.e)
          /\ pairs = <<>>
          /\ tasks = <<>>

C1_Witness ==
    /\ new_service = ErrClient(NewServiceError)
    /\ \A i \in Ids : fut[i] = "Failed" /\ result[i] = Err(NewServiceError)

\* C2: pairs created = tasks spawned = attempts whose factory future was
\* seen to succeed by a poll; one pair per such attempt, none per failure.
C2_PairsTasksSuccesses ==
    /\ Len(pairs) = Len(tasks)
    /\ Len(tasks) = Cardinality({i \in Ids : fut[i] = "Ready"})
    /\ \A i \in Ids :
          /\ fut[i] = "Ready" => Cardinality(PairsOf(i)) = 1
          /\ fut[i] = "Failed" => PairsOf(i) = {}

C2_Witness ==
    \E i, j \in Ids :
        /\ fut[i] = "Ready" /\ fut[j] = "Failed"
        /\ Len(pairs) = 1 /\ Len(tasks) = 1

\* C3: every client half a connect future returned has its peer server half
\* in a background task that was spawned with the handler instance the
\* factory produced for that attempt.
C3_ClientHalfBacked ==
    \A i \in Ids :
        IsOk(result[i]) =>
           /\ result[i][2].io \in PairIds
           /\ pairs[result[i][2].io] = i
           /\ \E t \in TaskIds :
                 /\ tasks[t].io = result[i][2].io
                 /\ tasks[t].service.inst = service_future[i].inst
                 /\ tasks[t].service.call = new_service.svc.call

C3_Witness ==
    \A i \in Ids : IsOk(result[i]) /\ \E t \in TaskIds : tasks[t].io = result[i][2].io

\* C4, as claimed: between connect and the first poll the factory has not
\* been invoked for the attempt, and no pair or task exists for it.
C4_NoFactoryCallBeforePoll ==
    \A i \in Ids :
        (fut[i] = "Pending" /\ ~polled[i]) =>
           /\ service_future[i] = NoFuture
           /\ PairsOf(i) = {}
           /\ TasksOfInst(service_future[i].inst) = {}

\* C4, amended: connect calls the factory exactly once and keeps the future
\* it returns without polling it; between connect and the first poll the
\* attempt has no pair, no task and no result.
C4_OnlyFactoryCallBeforePoll ==
    /\ nCalls = Cardinality(Created)
    /\ \A i \in Ids :
          (fut[i] = "Pending" /\ ~polled[i]) =>
             /\ service_future[i].inst \in 1..nCalls
             /\ \A j \in Created \ {i} : service_future[j].inst # service_future[i].inst
             /\ service_future[i].st \in {"NotReady", "Ok", "Err"}
             /\ result[i] = None
             /\ PairsOf(i) = {}
             /\ TasksOfInst(service_future[i].inst) = {}

C4_Witness ==
    \E i \in Ids :
        /\ fut[i] = "Pending" /\ ~polled[i]
        /\ service_future[i].st = "Ok"
        /\ \E j \in Ids : fut[j] = "Ready"

\* C5: a connect future dropped before it resolved has no pair and no task,
\* in every later state.
C5_DroppedNeverWired ==
    \A i \in Ids :
        fut[i] = "Dropped" =>
           /\ result[i] = None
           /\ PairsOf(i) = {}
           /\ TasksOfInst(service_future[i].inst) = {}

C5_Witness ==
    \E i, j \in Ids :
        /\ fut[i] = "Dropped" /\ polled[i]
        /\ i < j /\ fut[j] = "Ready"
        /\ runtime.alive

\* C6: a client built with proxy_client_fn_ok(h) answers request R with
\* exactly the body h(R).
C6_ResponseIsHandlerOutput ==
    \A h \in SyncHandlers :
        new_service = ProxyClientFnOk(h) =>
           \A p \in PairIds :
               IsOk(resp[p]) => sent[p] \in Requests /\ resp[p][2] = h[sent[p]]

C6_Witness ==
    /\ new_service = ProxyClientFnOk(Query)
    /\ \E p, q \in PairIds :
          /\ sent[p] = ReqGet /\ resp[p] = Ok(<<5>>)
          /\ sent[q] = ReqPost /\ resp[q] = Ok(<<>>)

\* C7: concurrent attempts share nothing.  Successful attempts have distinct
\* pairs and distinct handler instances from distinct factory calls; each
\* server half is read by one task only; what a server reads on a pair is,
\* in order, what the client wrote on that pair; and a response delivered on
\* a pair is the answer of that pair's handler to that pair's request.
C7_NoCrossTalk ==
    /\ \A i, j \in Ids :
          (i # j /\ IsOk(result[i]) /\ IsOk(result[j])) =>
             /\ result[i][2].io # result[j][2].io
             /\ service_future[i].inst # service_future[j].inst
    /\ \A t, u \in TaskIds :
          t # u => tasks[t].io # tasks[u].io /\ tasks[t].service.inst # tasks[u].service.inst
    /\ \A p \in PairIds :
          /\ IsPrefix(readS[p], wrote[p])
          /\ serverOpen[p] => readS[p] \o c2s[p] = wrote[p]
          /\ IsOk(resp[p]) =>
                \E t \in TasksOnPair(p) :
                    /\ tasks[t].service.inst = service_future[pairs[p]].inst
                    /\ resp[p] = tasks[t].service.call[sent[p]]

C7_Witness ==
    \E p, q \in PairIds :
        /\ sent[p] = ReqPost /\ resp[p] = Ok(<<7, 8>>)
        /\ sent[q] = ReqGet /\ resp[q] = Ok(<<>>)
        /\ readS[p] = EncodeRequest(ReqPost)
        /\ readS[q] = EncodeRequest(ReqGet)

\* C8, as claimed: when one task aborts on a serving error, every other
\* task keeps serving and every connect future stays as it was.
C8_AbortIsIsolated ==
    [][\A t \in TaskIds :
          (tasks[t].state = "Serving" /\ tasks'[t].state = "Aborted") =>
             /\ \A u \in TaskIds \ {t} : tasks'[u] = tasks[u]
             /\ fut' = fut]_vars

\* C9, as claimed: once the client half of a wired connection is gone, its
\* background task eventually ends in Closed.
C9_DropLeadsToClosed ==
    \A p \in Ids :
        (p \in PairIds /\ ~clientOpen[p])
            ~> (\E t \in TaskIds : tasks[t].io = p /\ tasks[t].state = "Closed")

\* C10: the error domains are disjoint.  A connect future fails only with
\* the error its factory future failed with; a serving error leaves the
\* attempt's result a success, re-invokes neither the factory nor the
\* handler, starts no second task for the connection, and reaches the client
\* only as the end of its stream.
C10_ErrorDomainsDisjoint ==
    /\ \A i \in Ids :
          IsErr(result[i]) =>
             /\ fut[i] = "Failed"
             /\ service_future[i].err \in Errors
             /\ result[i] = Err(service_future[i].err)
    /\ nCalls = Cardinality(Created)
    /\ \A t \in TaskIds :
          tasks[t].state = "Aborted" =>
             /\ IsOk(result[pairs[tasks[t].io]])
             /\ fut[pairs[tasks[t].io]] = "Ready"
             /\ Cardinality(TasksOnPair(tasks[t].io)) = 1
             /\ tasks[t].calls <= 1
             /\ ~serverOpen[tasks[t].io]
             /\ (tasks[t].calls = 0 => resp[tasks[t].io] \in {None, Terminated})
    /\ \A p \in PairIds : resp[p] = None \/ resp[p] = Terminated \/ IsOk(resp[p])

C10_Witness ==
    \E t \in TaskIds :
        /\ tasks[t].state = "Aborted"
        /\ resp[tasks[t].io] = Terminated
        /\ runtime.alive
        /\ \E i \in Ids : i # pairs[tasks[t].io] /\ fut[i] = "Failed"

\* C11: every transport a connect future resolves with carries connected
\* metadata with proxy = true, whatever the attempt and the destination.
C11_ProxyFlagSet ==
    \A i \in Ids :
        /\ fut[i] = "Ready" => IsOk(result[i])
        /\ IsOk(result[i]) => result[i][2].proxy = TRUE

C11_Witness ==
    /\ \A i \in Ids : IsOk(result[i]) /\ result[i][2].proxy
    /\ {dest[i] : i \in Ids} = Destinations

\* C12: the destination is ignored.  Two attempts made for different
\* destinations whose factory futures behaved alike resolved alike: both
\* failed with the same error, or both succeeded with a proxied transport
\* served by a handler of the same factory.
Resolved == {i \in Ids : fut[i] \in {"Ready", "Failed"}}
SameFactoryBehaviour(i, j) ==
    new_service.kind \in {"fn", "err"} \/ service_future[i].err = service_future[j].err

C12_DestinationIgnored ==
    \A i, j \in Resolved :
        (dest[i] # dest[j] /\ SameFactoryBehaviour(i, j)) =>
           /\ fut[i] = fut[j]
           /\ fut[i] = "Failed" => result[i] = result[j]
           /\ fut[i] = "Ready" =>
                 /\ result[i][2].proxy = result[j][2].proxy
                 /\ \E t, u \in TaskIds :
                       /\ tasks[t].io = result[i][2].io
                       /\ tasks[u].io = result[j][2].io
                       /\ tasks[t].service.call = tasks[u].service.call

C12_Witness ==
    \E i, j \in Resolved :
        /\ dest[i] = ExampleHttp /\ dest[j] = ExampleHttps
        /\ fut[i] = "Failed" /\ fut[j] = "Failed"
        /\ new_service.kind = "custom"
        /\ result[i] = result[j]

\* C13: a connect future that is not ready has wired nothing.  A poll that
\* returns not-ready leaves the pairs and the tasks as they are; a pair is
\* created, and a task spawned with it, only in the step in which a pending
\* connect future whose factory future holds a handler turns ready.
C13_Inert ==
    \A i \in Ids :
        /\ service_future[i].st = "NotReady" => fut[i] = "Pending"
        /\ fut[i] = "Pending" =>
              /\ result[i] = None
              /\ PairsOf(i) = {}
              /\ TasksOfInst(service_future[i].inst) = {}

C13_Step ==
    /\ \A i \in Ids :
          (~polled[i] /\ polled'[i] /\ fut'[i] = "Pending") =>
              pairs' = pairs /\ tasks' = tasks
    /\ (Len(pairs') # Len(pairs) \/ Len(tasks') # Len(tasks)) =>
          \E i \in Ids :
              /\ service_future[i].st = "Ok"
              /\ fut[i] = "Pending" /\ fut'[i] = "Ready"
              /\ pairs' = Append(pairs, i)
              /\ Len(tasks') = Len(tasks) + 1

C13_PendingPollsAreInert == [](C13_Inert) /\ [][C13_Step]_vars

C13_Witness ==
    \E i, j \in Ids :
        /\ fut[i] = "Pending" /\ polled[i] /\ service_future[i].st = "NotReady"
        /\ fut[j] = "Ready" /\ PairsOf(j) # {}

\* C14, as claimed: however often one connect future is polled, also after
\* it resolved, its attempt has at most one duplex pair and at most one task.
C14_WiredAtMostOnce ==
    \A i \in Ids :
        /\ Cardinality(PairsOf(i)) <= 1
        /\ Cardinality(TasksOfInst(service_future[i].inst)) <= 1

\* C15: every attempt is handled once.  The factory has been called once per
\* connect and never again (not after a failure, not after a pending poll);
\* every attempt has its own handler instance, owned by one task if the
\* attempt succeeded and by none otherwise; no task calls its handler twice
\* for a request.
C15_HandledExactlyOnce ==
    /\ nCalls = Cardinality(Created)
    /\ \A i \in Created :
          /\ service_future[i].inst \in 1..nCalls
          /\ \A j \in Created : j # i => service_future[j].inst # service_future[i].inst
          /\ Cardinality(TasksOfInst(service_future[i].inst))
                = IF fut[i] = "Ready" THEN 1 ELSE 0
    /\ \A t \in TaskIds :
          /\ tasks[t].calls <= 1
          /\ \E i \in Created : service_future[i].inst = tasks[t].service.inst

C15_Witness ==
    \E i, j \in Ids :
        /\ fut[i] = "Failed" /\ polled[i]
        /\ fut[j] = "Pending" /\ polled[j]
        /\ nCalls = 2

\* C16, as claimed: a task leaves Serving only to Closed, on the client's
\* half-close, or to Aborted; Closed and Aborted are final.
C16_TaskStateMachine ==
    [][\A t \in TaskIds :
          /\ tasks[t].state \in {"Closed", "Aborted"} => tasks'[t].state = tasks[t].state
          /\ tasks[t].state = "Serving" =>
                tasks'[t].state \in {"Serving", "Closed", "Aborted"}
          /\ (tasks[t].state = "Serving" /\ tasks'[t].state = "Closed") =>
                ~clientOpen[tasks[t].io]]_vars

\* C17: the wiring does not suspend.  Once the factory's future has handed
\* out its handler, the connect future is ready: the pair exists, the task is
\* spawned and the client half is returned, all in that same poll.
C17_WiringIsSynchronous ==
    \A i \in Ids :
        (service_future[i].st = "Done" /\ service_future[i].err = NoErr) =>
           /\ fut[i] = "Ready"
           /\ IsOk(result[i])
           /\ Cardinality(PairsOf(i)) = 1
           /\ Cardinality(TasksOfInst(service_future[i].inst)) = 1

C17_Witness ==
    /\ new_service.kind = "custom"
    /\ \E i, j \in Ids :
          /\ service_future[i].st = "Done" /\ fut[i] = "Ready"
          /\ service_future[j].st = "Ok" /\ fut[j] = "Pending" /\ polled[j]

\* C18: a client made by proxy_client_fn or proxy_client_fn_ok has a factory
\* that always succeeds at once: a connect future of it that has been polled
\* is ready with a wired transport, and none is ever failed or suspended.
FnClients == {ProxyClientFnOk(h) : h \in SyncHandlers} \cup {ProxyClientFn(FailingHandler)}

C18_FnFactoryAlwaysSucceeds ==
    new_service \in FnClients =>
       \A i \in Ids :
           /\ service_future[i].st \notin {"NotReady", "Err"}
           /\ fut[i] # "Failed"
           /\ ~IsErr(result[i])
           /\ polled[i] =>
                 /\ fut[i] = "Ready"
                 /\ IsOk(result[i])
                 /\ TasksOnPair(result[i][2].io) # {}

C18_Witness ==
    /\ new_service = ProxyClientFnOk(Echo)
    /\ \A i \in Ids : polled[i] /\ fut[i] = "Ready"

\* C19: ownership is exclusive.  Every client half is held by exactly one
\* returned transport and every server half by exactly one task; the factory
\* the attempts share is never changed.
C19_Owners ==
    \A p \in PairIds :
        /\ Cardinality({i \in Ids : IsOk(result[i]) /\ result[i][2].io = p}) = 1
        /\ Cardinality(TasksOnPair(p)) = 1

C19_ExclusiveOwnership == [](C19_Owners) /\ [][new_service' = new_service]_vars

C19_Witness ==
    /\ Len(pairs) >= 2
    /\ \A p \in PairIds : sent[p] # NoRequest /\ IsOk(resp[p])

====
